---- MODULE Spec2Model ----
(***************************************************************************)
(* BTUCalculator.jsx: a React component holding four inputs (three number  *)
(* fields kept as raw text and one select) and a stored total that an      *)
(* effect recomputes whenever an input changes.                            *)
(*                                                                         *)
(* Texts are sequences of one-character strings.  A JavaScript number is a *)
(* record [nan, v]; v is a fixed-point integer counting units of           *)
(* 10^-FracDigits.  The sign of zero is not represented (JavaScript's      *)
(* -0 === 0), and the typed texts keep every product exact in binary       *)
(* floating point, so fixed-point and IEEE arithmetic agree on them.       *)
(***************************************************************************)
EXTENDS Integers, Sequences, FiniteSets, TLC

\* ------------------------------------------------------------------------
\* Bounds of the model
\* ------------------------------------------------------------------------
\* Longest text typed into a number field.
MaxLen == 3
\* Decimal places kept by the fixed-point representation of a number.
FracDigits == 3

RECURSIVE Pow10(_)
Pow10(n) == IF n <= 0 THEN 1 ELSE 10 * Pow10(n - 1)

Scale == Pow10(FracDigits)

\* ------------------------------------------------------------------------
\* JavaScript numbers
\* ------------------------------------------------------------------------
NaN == [nan |-> TRUE, v |-> 0]
Num(x) == [nan |-> FALSE, v |-> x]
\* an integer literal of the source as a number
Lit(n) == Num(n * Scale)

\* a * n where n is an integer literal of the source
JsMulInt(a, n) == IF a.nan THEN NaN ELSE Num(a.v * n)
\* a * (pct / 100): the source's a * 0.10 and a * 0.20
JsMulPct(a, pct) == IF a.nan THEN NaN ELSE Num((a.v * pct) \div 100)
\* a - n where n is an integer literal of the source
JsSubInt(a, n) == IF a.nan THEN NaN ELSE Num(a.v - n * Scale)
JsAdd(a, b) == IF a.nan \/ b.nan THEN NaN ELSE Num(a.v + b.v)
JsNeg(a) == IF a.nan THEN NaN ELSE Num(0 - a.v)
\* a > n where n is an integer literal of the source: false on NaN
JsGtInt(a, n) == ~a.nan /\ a.v > n * Scale
\* Math.max(0, a): NaN if a is NaN
MathMax0(a) == IF a.nan THEN NaN ELSE IF a.v > 0 THEN a ELSE Num(0)
\* a || 0 on a number: NaN and 0 are falsy
OrZero(a) == IF a.nan \/ a.v = 0 THEN Num(0) ELSE a
\* Math.round: the nearest integer, halves towards +Infinity
MathRound(a) ==
    IF a.nan THEN NaN ELSE Num(((a.v + Scale \div 2) \div Scale) * Scale)

\* ------------------------------------------------------------------------
\* Texts and their conversion to numbers
\* ------------------------------------------------------------------------
DecDigits == <<"0", "1", "2", "3", "4", "5", "6", "7", "8", "9">>
HexLetters == <<"a", "b", "c", "d", "e", "f">>
HexCapitals == <<"A", "B", "C", "D", "E", "F">>

IsDigit(c) == \E k \in 1..10 : DecDigits[k] = c
DigitVal(c) == (CHOOSE k \in 1..10 : DecDigits[k] = c) - 1
IsSpace(c) == c = " "

\* digit value of c in the given radix, or -1
RadixVal(c, radix) ==
    LET d == IF IsDigit(c) THEN DigitVal(c)
             ELSE IF \E k \in 1..6 : HexLetters[k] = c
                  THEN 9 + (CHOOSE k \in 1..6 : HexLetters[k] = c)
             ELSE IF \E k \in 1..6 : HexCapitals[k] = c
                  THEN 9 + (CHOOSE k \in 1..6 : HexCapitals[k] = c)
             ELSE -1
    IN IF d < radix THEN d ELSE -1

\* number of consecutive decimal digits of s from position i on
RECURSIVE DigitRun(_, _)
DigitRun(s, i) ==
    IF i <= Len(s) /\ IsDigit(s[i]) THEN 1 + DigitRun(s, i + 1) ELSE 0

\* value of the n decimal digits of s starting at i, as an integer
RECURSIVE IntOfDigits(_, _, _)
IntOfDigits(s, i, n) ==
    IF n = 0 THEN 0
    ELSE IntOfDigits(s, i, n - 1) * 10 + DigitVal(s[i + n - 1])

\* value of the n fraction digits of s starting at i, in fixed point
RECURSIVE FracOfDigits(_, _, _)
FracOfDigits(s, i, n) ==
    IF n = 0 THEN 0
    ELSE FracOfDigits(s, i, n - 1) + (DigitVal(s[i + n - 1]) * Scale) \div Pow10(n)

\* x * 10^e in fixed point
ScaleBy(x, e) == IF e >= 0 THEN x * Pow10(e) ELSE x \div Pow10(0 - e)

\* first position of s at or after i that holds no white space
RECURSIVE SkipSpace(_, _)
SkipSpace(s, i) ==
    IF i <= Len(s) /\ IsSpace(s[i]) THEN SkipSpace(s, i + 1) ELSE i

\* last position of s at or before j that holds no white space
RECURSIVE SkipSpaceBack(_, _)
SkipSpaceBack(s, j) ==
    IF j >= 1 /\ IsSpace(s[j]) THEN SkipSpaceBack(s, j - 1) ELSE j

\* The longest prefix of s from position i0 on that is a StrDecimalLiteral
\* (sign, digits, fraction, exponent) is found in stages, each handing what
\* it has read to the next.  The result is [ok, next, v]: whether there is
\* such a prefix, the position after it and its value.

\* the literal without an exponent part, or none
NoExponent(ok, m, mant) ==
    [ok |-> ok, next |-> m, v |-> IF ok THEN mant ELSE 0]

\* the digits of the exponent, nExp of them from eAt on; without digits the
\* "e" is not part of the literal
ExponentDigits(s, ok, m, mant, eNeg, eAt, nExp) ==
    IF nExp > 0
    THEN [ok   |-> ok,
          next |-> eAt + nExp,
          v    |-> IF ~ok THEN 0
                   ELSE IF eNeg THEN ScaleBy(mant, 0 - IntOfDigits(s, eAt, nExp))
                   ELSE ScaleBy(mant, IntOfDigits(s, eAt, nExp))]
    ELSE NoExponent(ok, m, mant)

\* the exponent part from position m on, after a mantissa of value mant
ExponentPart(s, ok, m, mant) ==
    IF m <= Len(s) /\ s[m] \in {"e", "E"}
    THEN IF m + 1 <= Len(s) /\ s[m + 1] \in {"+", "-"}
         THEN ExponentDigits(s, ok, m, mant, s[m + 1] = "-", m + 2,
                             DigitRun(s, m + 2))
         ELSE ExponentDigits(s, ok, m, mant, FALSE, m + 1, DigitRun(s, m + 1))
    ELSE NoExponent(ok, m, mant)

\* the fraction: nFrac digits after the "." that follows the nInt digits
FractionPart(s, i, nInt, nFrac) ==
    ExponentPart(s, nInt > 0 \/ nFrac > 0, i + nInt + 1 + nFrac,
                 IntOfDigits(s, i, nInt) * Scale
                     + FracOfDigits(s, i + nInt + 1, nFrac))

\* the mantissa from position i on, which starts with nInt digits
Mantissa(s, i, nInt) ==
    IF i + nInt <= Len(s) /\ s[i + nInt] = "."
    THEN FractionPart(s, i, nInt, DigitRun(s, i + nInt + 1))
    ELSE ExponentPart(s, nInt > 0, i + nInt, IntOfDigits(s, i, nInt) * Scale)

Negated(p) == [ok |-> p.ok, next |-> p.next, v |-> 0 - p.v]

DecimalPrefix(s, i0) ==
    IF i0 <= Len(s) /\ s[i0] = "-"
    THEN Negated(Mantissa(s, i0 + 1, DigitRun(s, i0 + 1)))
    ELSE IF i0 <= Len(s) /\ s[i0] = "+"
    THEN Mantissa(s, i0 + 1, DigitRun(s, i0 + 1))
    ELSE Mantissa(s, i0, DigitRun(s, i0))

\* the number a prefix stands for, NaN if there is none
PrefixValue(p) == IF p.ok THEN Num(p.v) ELSE NaN

\* parseFloat(s): leading white space is skipped, the longest numeric prefix
\* is converted and whatever follows it is ignored; NaN without such a prefix
parseFloat(s) == PrefixValue(DecimalPrefix(s, SkipSpace(s, 1)))

\* one more digit d after the digits of value rest; -1 if one is no digit
RadixStep(rest, d, radix) ==
    IF rest < 0 \/ d < 0 THEN -1 ELSE rest * radix + d

\* value of the digits s[i..j] in the given radix, or -1 if one is no digit
RECURSIVE RadixInt(_, _, _, _)
RadixInt(s, i, j, radix) ==
    IF j < i THEN 0
    ELSE RadixStep(RadixInt(s, i, j - 1, radix), RadixVal(s[j], radix), radix)

RadixOf(c) == IF c \in {"x", "X"} THEN 16
              ELSE IF c \in {"o", "O"} THEN 8
              ELSE IF c \in {"b", "B"} THEN 2
              ELSE 0

\* value of s[i..j] read as 0x.., 0o.. or 0b.., or -1 if it is none of them
RadixLiteral(s, i, j) ==
    IF j >= i + 2 /\ s[i] = "0" /\ RadixOf(s[i + 1]) > 0
    THEN RadixInt(s, i + 2, j, RadixOf(s[i + 1]))
    ELSE -1

\* the whole of s[..j] is the decimal literal p, or the radix literal h
WholeLiteral(p, j, h) ==
    IF p.ok /\ p.next = j + 1 THEN Num(p.v)
    ELSE IF h >= 0 THEN Num(h * Scale)
    ELSE NaN

ToNumberTrimmed(s, i, j) ==
    IF i > j THEN Num(0)
    ELSE WholeLiteral(DecimalPrefix(s, i), j, RadixLiteral(s, i, j))

\* ToNumber(s), the implicit coercion of a string operand of * and -: white
\* space is trimmed on both sides, the empty string is 0, and the whole of
\* the rest has to be one numeric literal (decimal, or 0x / 0o / 0b)
ToNumber(s) == ToNumberTrimmed(s, SkipSpace(s, 1), SkipSpaceBack(s, Len(s)))

\* ------------------------------------------------------------------------
\* The input widgets
\* ------------------------------------------------------------------------
\* What the user types into the three number fields, whatever the length.
AreaTyped ==
    { <<>>, <<"2", "0", "0">>, <<"-", "5">>, <<".", "5">>, <<"1", "e", "2">>,
      <<"1", "2", "a">>, <<"0", "x", "9">>,
      <<"-", "2", ".", "5">>, <<"0", "x", "1", "A">> }
OccupantsTyped ==
    { <<>>, <<"2">>, <<"3">>, <<"5">>, <<"-", "1">>, <<"2", ".", "5">>,
      <<"4", "x">>, <<"1", "0", ".", "5">> }
HeightTyped ==
    { <<>>, <<"7">>, <<"8">>, <<"9">>, <<"1", "0">>, <<"8", ".", "5">>,
      <<"9", "f", "t">>, <<"1", "2", ".", "5">> }

AreaTexts == {t \in AreaTyped : Len(t) <= MaxLen}
OccupantsTexts == {t \in OccupantsTyped : Len(t) <= MaxLen}
HeightTexts == {t \in HeightTyped : Len(t) <= MaxLen}

\* the four <option> values of the select
ExposureOptions == {"shady", "average", "sunny", "very_sunny"}

\* the prefix p is the whole of a text of length n
IsWhole(p, n) == p.ok /\ p.next = n + 1

\* A valid floating-point number of HTML: an optional "-", digits and/or a
\* "." followed by digits, and an optional exponent; nothing else around
\* it.  That is a decimal literal without a "+" in front and without a "."
\* that no digit follows.
IsValidFloat(s) ==
    /\ IsWhole(DecimalPrefix(s, 1), Len(s))
    /\ s[1] # "+"
    /\ \A k \in 1..Len(s) : s[k] = "." => (k < Len(s) /\ IsDigit(s[k + 1]))

\* Variant: the field is a text input, which hands over whatever was typed.
TextInputValue(t) == t

\* The value of an <input type="number"> after the user typed t: the typed
\* text if it is a valid floating-point number, and the empty string if not.
NumberInputValue(t) == IF IsValidFloat(t) THEN t ELSE <<>>

\* the values the three number fields can hold
AreaValues == {NumberInputValue(t) : t \in AreaTexts}
OccupantsValues == {NumberInputValue(t) : t \in OccupantsTexts}
HeightValues == {NumberInputValue(t) : t \in HeightTexts}

\* ------------------------------------------------------------------------
\* calculateBTU
\* ------------------------------------------------------------------------
\* parseFloat(text) || 0
ParseOrZero(text) == OrZero(parseFloat(text))

baseBTU(areaVal) == JsMulInt(areaVal, 25)

\* Variant: every occupant is charged, the first two included.
occupancyBTU_PerPerson(occupantsVal) ==
    IF JsGtInt(occupantsVal, 2) THEN JsMulInt(occupantsVal, 600) ELSE Num(0)

occupancyBTU(occupantsVal) ==
    IF JsGtInt(occupantsVal, 2)
    THEN JsMulInt(JsSubInt(occupantsVal, 2), 600)
    ELSE Num(0)

\* Variant: the adjustment is applied without the test of the threshold.
heightBTU_Unguarded(heightVal) == JsMulInt(JsSubInt(heightVal, 8), 1000)

heightBTU(heightVal) ==
    IF JsGtInt(heightVal, 8)
    THEN JsMulInt(JsSubInt(heightVal, 8), 1000)
    ELSE Num(0)

sunBTU(exposure, base) ==
    IF exposure = "shady" THEN JsNeg(JsMulPct(base, 10))
    ELSE IF exposure = "sunny" THEN JsMulPct(base, 10)
    ELSE IF exposure = "very_sunny" THEN JsMulPct(base, 20)
    ELSE Num(0)

\* Variant: the sum is rounded before it is stored.
SumBTU_Rounded(base, occ, hgt, sun) ==
    MathRound(JsAdd(JsAdd(JsAdd(base, occ), hgt), sun))

\* the value handed to setTotalBTU
SumBTU(base, occ, hgt, sun) == JsAdd(JsAdd(JsAdd(base, occ), hgt), sun)

\* calculateBTU in the order of its statements, each stage handing its
\* local values to the next.  The result records the inputs that the call
\* read, its local values and the total it stores.

\* line 56: the total
StoreTotal(a, o, h, s, areaVal, occupantsVal, heightVal, base, occ, hgt, sun) ==
    [called       |-> TRUE,
     area         |-> a,
     occupants    |-> o,
     height       |-> h,
     sunExposure  |-> s,
     areaVal      |-> areaVal,
     occupantsVal |-> occupantsVal,
     heightVal    |-> heightVal,
     baseBTU      |-> base,
     occupancyBTU |-> occ,
     heightBTU    |-> hgt,
     sunBTU       |-> sun,
     total        |-> SumBTU(base, occ, hgt, sun)]

\* Variant: the climate percentage is taken of the subtotal, the other
\* reading that the comment in the source considers.
ClimateOnSubtotal(a, o, h, s, areaVal, occupantsVal, heightVal, base, occ, hgt) ==
    StoreTotal(a, o, h, s, areaVal, occupantsVal, heightVal, base, occ, hgt,
               sunBTU(s, JsAdd(JsAdd(base, occ), hgt)))

\* lines 38-53: the climate adjustment, a percentage of the base
Climate(a, o, h, s, areaVal, occupantsVal, heightVal, base, occ, hgt) ==
    StoreTotal(a, o, h, s, areaVal, occupantsVal, heightVal, base, occ, hgt,
               sunBTU(s, base))

\* lines 21-36: the base and the occupancy and height adjustments
Terms(a, o, h, s, areaVal, occupantsVal, heightVal) ==
    Climate(a, o, h, s, areaVal, occupantsVal, heightVal,
            baseBTU(areaVal), occupancyBTU(occupantsVal), heightBTU(heightVal))

\* One call of calculateBTU on the state (a, o, h, s) of a render; lines
\* 16-19: the inputs are parsed
calculateBTU(a, o, h, s) ==
    Terms(a, o, h, s, ParseOrZero(a), ParseOrZero(o), ParseOrZero(h))

\* no call of calculateBTU has completed yet
NoCall ==
    [called       |-> FALSE,
     area         |-> <<>>,
     occupants    |-> <<>>,
     height       |-> <<>>,
     sunExposure  |-> "average",
     areaVal      |-> Num(0),
     occupantsVal |-> Num(0),
     heightVal    |-> Num(0),
     baseBTU      |-> Num(0),
     occupancyBTU |-> Num(0),
     heightBTU    |-> Num(0),
     sunBTU       |-> Num(0),
     total        |-> Num(0)]

\* ------------------------------------------------------------------------
\* The component
\* ------------------------------------------------------------------------
VARIABLES
    area,         \* text of the area field
    occupants,    \* text of the occupants field
    height,       \* text of the height field
    sunExposure,  \* value of the select
    totalBTU,     \* the stored total
    pending,      \* the effect of the last committed render has not run yet
    last          \* the most recent call of calculateBTU

vars == <<area, occupants, height, sunExposure, totalBTU, pending, last>>

\* The state after mounting: the useState initial values, with the effect
\* of the first render scheduled.
Init ==
    /\ area = <<>>
    /\ occupants = <<>>
    /\ height = <<>>
    /\ sunExposure = "average"
    /\ totalBTU = Num(0)
    /\ pending = TRUE
    /\ last = NoCall

\* Variant: the new total is added to the stored one.
RunEffect_Accumulate ==
    /\ pending
    /\ last' = calculateBTU(area, occupants, height, sunExposure)
    /\ totalBTU' = JsAdd(totalBTU, last'.total)
    /\ pending' = FALSE
    /\ UNCHANGED <<area, occupants, height, sunExposure>>

\* The effect of the committed render runs: calculateBTU reads that render's
\* inputs and stores the total.
RunEffect ==
    /\ pending
    /\ last' = calculateBTU(area, occupants, height, sunExposure)
    /\ totalBTU' = last'.total
    /\ pending' = FALSE
    /\ UNCHANGED <<area, occupants, height, sunExposure>>

\* A state setter is called with a value that differs from the current one:
\* React renders again.  An effect still waiting from the previous render is
\* run first, on the inputs of that render; the new render schedules the
\* effect again because a dependency changed.
FlushBeforeRender ==
    /\ last' = IF pending
               THEN calculateBTU(area, occupants, height, sunExposure)
               ELSE last
    /\ totalBTU' = IF pending THEN last'.total ELSE totalBTU
    /\ pending' = TRUE

\* onChange of the area field: setArea(e.target.value)
SetArea(typed) ==
    LET value == NumberInputValue(typed)
    IN /\ value # area
       /\ area' = value
       /\ FlushBeforeRender
       /\ UNCHANGED <<occupants, height, sunExposure>>

\* onChange of the occupants field: setOccupants(e.target.value)
SetOccupants(typed) ==
    LET value == NumberInputValue(typed)
    IN /\ value # occupants
       /\ occupants' = value
       /\ FlushBeforeRender
       /\ UNCHANGED <<area, height, sunExposure>>

\* Variant: height is missing from the dependency array of the effect.
SetHeight_NoDependency(typed) ==
    LET value == NumberInputValue(typed)
    IN /\ value # height
       /\ height' = value
       /\ UNCHANGED <<area, occupants, sunExposure, totalBTU, pending, last>>

\* onChange of the height field: setHeight(e.target.value)
SetHeight(typed) ==
    LET value == NumberInputValue(typed)
    IN /\ value # height
       /\ height' = value
       /\ FlushBeforeRender
       /\ UNCHANGED <<area, occupants, sunExposure>>

\* onChange of the select: setSunExposure(e.target.value)
SetSunExposure(value) ==
    /\ value # sunExposure
    /\ sunExposure' = value
    /\ FlushBeforeRender
    /\ UNCHANGED <<area, occupants, height>>

Next ==
    \/ RunEffect
    \/ \E typed \in AreaTexts : SetArea(typed)
    \/ \E typed \in OccupantsTexts : SetOccupants(typed)
    \/ \E typed \in HeightTexts : SetHeight(typed)
    \/ \E value \in ExposureOptions : SetSunExposure(value)

Spec == Init /\ [][Next]_vars

\* The steps of RunEffect, told by what they do to the flag: RunEffect is
\* enabled exactly when an effect is pending, and it is the only action
\* that clears the flag, so fairness of these steps is fairness of
\* RunEffect.
EffectRuns == pending /\ pending' = FALSE

\* The effect is a scheduled callback: React runs it once the render is
\* committed.
FairSpec == Spec /\ WF_pending(EffectRuns)

\* ------------------------------------------------------------------------
\* The estimator called directly
\* ------------------------------------------------------------------------
\* a value the select does not offer
UnknownExposure == "tropical"

\* calculateBTU is about to run on any value of the number fields and any
\* exposure, the four options or one the estimator does not know.
EstInit ==
    /\ area \in AreaValues
    /\ occupants \in OccupantsValues
    /\ height \in HeightValues
    /\ sunExposure \in ExposureOptions \cup {UnknownExposure}
    /\ totalBTU = Num(0)
    /\ pending = TRUE
    /\ last = NoCall

EstNext == RunEffect

EstSpec == EstInit /\ [][EstNext]_vars

\* ------------------------------------------------------------------------
\* The rendered result section
\* ------------------------------------------------------------------------
\* Math.round(totalBTU)
ViewTotal == MathRound(totalBTU)

\* area * 25 || 0
BreakdownBase(a) == OrZero(JsMulInt(ToNumber(a), 25))

\* Math.max(0, (occupants - 2) * 600) || 0
BreakdownOccupancy(o) ==
    OrZero(MathMax0(JsMulInt(JsSubInt(ToNumber(o), 2), 600)))

\* Math.max(0, (height - 8) * 1000) || 0
BreakdownHeight(h) ==
    OrZero(MathMax0(JsMulInt(JsSubInt(ToNumber(h), 8), 1000)))

\* (sunExposure === 'shady' ? -(area * 25 * 0.10) : ... : 0) || 0
BreakdownSun(s, a) ==
    OrZero(IF s = "shady" THEN JsNeg(JsMulPct(JsMulInt(ToNumber(a), 25), 10))
           ELSE IF s = "sunny" THEN JsMulPct(JsMulInt(ToNumber(a), 25), 10)
           ELSE IF s = "very_sunny" THEN JsMulPct(JsMulInt(ToNumber(a), 25), 20)
           ELSE Num(0))

\* the four numbers of the breakdown as displayed
ViewBase == MathRound(BreakdownBase(area))
ViewOccupancy == MathRound(BreakdownOccupancy(occupants))
ViewHeight == MathRound(BreakdownHeight(height))
ViewSun == MathRound(BreakdownSun(sunExposure, area))

\* ------------------------------------------------------------------------
\* Properties
\* ------------------------------------------------------------------------
\* the percentage of base that each option adds
ExposurePct(s) ==
    IF s = "shady" THEN -10
    ELSE IF s = "sunny" THEN 10
    ELSE IF s = "very_sunny" THEN 20
    ELSE 0

\* C1: the stored total is exactly the sum of the four terms computed by
\* the call that stored it; nothing else is added and nothing is rounded.
C1_TotalIsSum ==
    last.called =>
        /\ totalBTU = last.total
        /\ ~totalBTU.nan
        /\ totalBTU.v = last.baseBTU.v + last.occupancyBTU.v
                          + last.heightBTU.v + last.sunBTU.v

\* a call with four non-zero terms and a total that is not a whole number
C1_Witness ==
    /\ last.called
    /\ last.baseBTU.v # 0
    /\ last.occupancyBTU.v # 0
    /\ last.heightBTU.v # 0
    /\ last.sunBTU.v # 0
    /\ totalBTU.v % Scale # 0

\* C2: the occupancy adjustment is 0 up to and including 2 occupants and
\* (occupants - 2) * 600 above, strictly increasing above 2, and unchanged
\* when the area, the height or the exposure of the call is replaced by
\* any other (one at a time, from every call that can happen).
C2_Occupancy ==
    last.called =>
        /\ last.occupantsVal.v <= 2 * Scale => last.occupancyBTU = Num(0)
        /\ last.occupantsVal.v > 2 * Scale =>
               last.occupancyBTU = Num((last.occupantsVal.v - 2 * Scale) * 600)
        /\ \A o \in OccupantsValues :
               LET n == ParseOrZero(o)
               IN (last.occupantsVal.v > 2 * Scale /\ n.v > last.occupantsVal.v)
                      => occupancyBTU(n).v > last.occupancyBTU.v
        /\ \A a \in AreaValues :
               calculateBTU(a, last.occupants, last.height, last.sunExposure)
                   .occupancyBTU = last.occupancyBTU
        /\ \A h \in HeightValues :
               calculateBTU(last.area, last.occupants, h, last.sunExposure)
                   .occupancyBTU = last.occupancyBTU
        /\ \A s \in ExposureOptions :
               calculateBTU(last.area, last.occupants, last.height, s)
                   .occupancyBTU = last.occupancyBTU

\* a call with a fractional occupant count above 2 and other terms present
C2_Witness ==
    /\ last.called
    /\ last.occupantsVal.v > 2 * Scale
    /\ last.occupantsVal.v < 3 * Scale
    /\ last.occupancyBTU.v > 0
    /\ last.baseBTU.v # 0
    /\ last.heightBTU.v # 0

\* C3: the height adjustment is 0 up to and including 8 ft and
\* (height - 8) * 1000 above, and unchanged when the area, the occupant
\* count or the exposure of the call is replaced by any other.
C3_Height ==
    last.called =>
        /\ last.heightVal.v <= 8 * Scale => last.heightBTU = Num(0)
        /\ last.heightVal.v > 8 * Scale =>
               last.heightBTU = Num((last.heightVal.v - 8 * Scale) * 1000)
        /\ \A a \in AreaValues :
               calculateBTU(a, last.occupants, last.height, last.sunExposure)
                   .heightBTU = last.heightBTU
        /\ \A o \in OccupantsValues :
               calculateBTU(last.area, o, last.height, last.sunExposure)
                   .heightBTU = last.heightBTU
        /\ \A s \in ExposureOptions :
               calculateBTU(last.area, last.occupants, last.height, s)
                   .heightBTU = last.heightBTU

\* a call with a ceiling of exactly 8 ft and the other terms present
C3_Witness ==
    /\ last.called
    /\ last.heightVal = Lit(8)
    /\ last.heightBTU = Num(0)
    /\ last.baseBTU.v # 0
    /\ last.occupancyBTU.v # 0

\* C4: the climate adjustment is -10%, 0, +10% or +20% of base = area * 25
\* by exposure, and unchanged when the occupant count or the ceiling height
\* of the call is replaced by any other.
C4_Climate ==
    last.called =>
        /\ last.baseBTU = Num(last.areaVal.v * 25)
        /\ ~last.sunBTU.nan
        /\ last.sunBTU.v * 100 = ExposurePct(last.sunExposure) * last.baseBTU.v
        /\ \A o \in OccupantsValues :
               calculateBTU(last.area, o, last.height, last.sunExposure)
                   .sunBTU = last.sunBTU
        /\ \A h \in HeightValues :
               calculateBTU(last.area, last.occupants, h, last.sunExposure)
                   .sunBTU = last.sunBTU

\* a sunny call whose occupancy and height adjustments are both present
C4_Witness ==
    /\ last.called
    /\ last.sunExposure = "sunny"
    /\ last.sunBTU.v > 0
    /\ last.occupancyBTU.v > 0
    /\ last.heightBTU.v > 0

\* C5: on an exposure outside the four options the estimator fails and
\* produces no total: no call on such a value completes.
C5_UnknownExposureFails ==
    last.called => last.sunExposure \in ExposureOptions

\* C6: the numbers the computation uses are never negative.
C6_NonNegativeInputs ==
    last.called =>
        /\ last.areaVal.v >= 0
        /\ last.occupantsVal.v >= 0
        /\ last.heightVal.v >= 0

\* C7: a recomputation leaves the four inputs alone and stores a total that
\* is a function of them only, whatever total was stored before.
C7_Deterministic ==
    [][(pending /\ ~pending') =>
           /\ <<area, occupants, height, sunExposure>>'
                  = <<area, occupants, height, sunExposure>>
           /\ totalBTU'
                  = calculateBTU(area', occupants', height', sunExposure').total
      ]_vars

\* a recomputation has completed after all four inputs were changed, one
\* at a time and so over several earlier totals, and stored a non-zero total
C7_Witness ==
    /\ ~pending
    /\ last.called
    /\ totalBTU.v # 0
    /\ area # <<>>
    /\ occupants # <<>>
    /\ height # <<>>
    /\ sunExposure # "average"

\* C8: every change of an input schedules a recomputation (with none
\* scheduled, the last call read the current inputs), a scheduled
\* recomputation eventually runs, and with none scheduled the stored total
\* is the estimate for the current inputs.
C8_Recomputed ==
    /\ [](~pending =>
            /\ last.called
            /\ <<last.area, last.occupants, last.height, last.sunExposure>>
                   = <<area, occupants, height, sunExposure>>
            /\ totalBTU
                   = calculateBTU(area, occupants, height, sunExposure).total)
    /\ (pending ~> ~pending)

\* a recomputation is scheduled while the stored total is that of earlier
\* inputs
C8_Witness ==
    /\ pending
    /\ last.called
    /\ height # last.height
    /\ totalBTU # calculateBTU(area, occupants, height, sunExposure).total

\* C9: before rounding, each breakdown value of the view equals the term
\* that calculateBTU computes from the same inputs.
C9_BreakdownMatches ==
    LET c == calculateBTU(area, occupants, height, sunExposure)
    IN /\ BreakdownBase(area) = c.baseBTU
       /\ BreakdownOccupancy(occupants) = c.occupancyBTU
       /\ BreakdownHeight(height) = c.heightBTU
       /\ BreakdownSun(sunExposure, area) = c.sunBTU

\* fields holding an exponent, a negative count and a fraction, with a
\* climate adjustment
C9_Witness ==
    /\ area = <<"1", "e", "2">>
    /\ occupants = <<"-", "1">>
    /\ height = <<"8", ".", "5">>
    /\ sunExposure = "shady"

\* C10: in every rendered state the displayed total is the sum of the four
\* displayed breakdown values.
C10_DisplayAddsUp ==
    ViewTotal.v = ViewBase.v + ViewOccupancy.v + ViewHeight.v + ViewSun.v

====
